---- MODULE Spec2Model ----
(***************************************************************************)
(* DealHound price tracker (src/dealhound.py): the extraction cascade of   *)
(* PriceTracker._extract_amazon_product, the CSV observation log, the      *)
(* threshold check with its e-mail alert, and the run of track_products.   *)
(*                                                                         *)
(* Text is modelled as a sequence of one-character strings, so that        *)
(* str.strip, str.lower, str.replace, the "in" substring test and the      *)
(* regular expression of the price parser are computed, not assumed.       *)
(* A price (a Python float) is modelled in thousandths (mills): 49.99 is   *)
(* 49990.  An optional value (None or a value) is a sequence of length 0   *)
(* or 1.                                                                   *)
(***************************************************************************)
EXTENDS Integers, Sequences, FiniteSets, TLC

VARIABLES
    pc,            \* position of the process: "main", "ready", "loop", "exit"
    config_file,   \* the file at --config: [kind, content]
    products_file, \* the file at --products: <<>> (missing) or <<list of URLs>>
    environ,       \* os.environ: EMAIL_SENDER, EMAIL_PASSWORD, EMAIL_RECIPIENT
    config,        \* self.config, <<>> before _load_config
    results_file,  \* results.csv: <<>> (does not exist) or <<rows>>
    driver,        \* "none", "open", "quit"
    idx,           \* enumerate index of the for loop of track_products
    now,           \* the clock, in seconds
    exit_code,     \* process exit code, -1 while running
    visits,        \* history: one record per loop iteration of track_products
    run,           \* history: facts about the run (what the file held at start, fatal cause)
    web,           \* which pages the sites may render during the run (see PagesOf)
    doc,           \* the rendered page an isolated extraction is applied to
    product_data   \* result of an isolated call: <<>> not called, else <<result>>

vars == <<pc, config_file, products_file, environ, config, results_file, driver,
          idx, now, exit_code, visits, run, web, doc, product_data>>

----------------------------------------------------------------------------
(* Text                                                                    *)

Digits == <<"0", "1", "2", "3", "4", "5", "6", "7", "8", "9">>

IsDigit(c) == \E d \in 1..10 : Digits[d] = c

DigitVal(c) == (CHOOSE d \in 1..10 : Digits[d] = c) - 1

Upper == <<"A", "B", "C", "E", "I", "K", "O", "S", "T", "U">>

LowerOfUpper == <<"a", "b", "c", "e", "i", "k", "o", "s", "t", "u">>

\* str.lower, one character
LowerChar(c) ==
    IF \E k \in 1..Len(Upper) : Upper[k] = c
    THEN LowerOfUpper[CHOOSE k \in 1..Len(Upper) : Upper[k] = c]
    ELSE c

\* str.lower
Lower(s) == [k \in 1..Len(s) |-> LowerChar(s[k])]

IsSpace(c) == c = " "

\* str.strip: drop leading and trailing whitespace
Strip(s) ==
    LET keep == {k \in 1..Len(s) : ~IsSpace(s[k])}
    IN  IF keep = {} THEN <<>>
        ELSE LET lo == CHOOSE k \in keep : \A j \in keep : k <= j
                 hi == CHOOSE k \in keep : \A j \in keep : k >= j
             IN  SubSeq(s, lo, hi)

\* str.replace(c, ''): drop every occurrence of the character c
RECURSIVE Remove(_, _)
Remove(s, c) ==
    IF s = <<>> THEN <<>>
    ELSE IF Head(s) = c THEN Remove(Tail(s), c)
    ELSE <<Head(s)>> \o Remove(Tail(s), c)

\* sub in s
Contains(s, sub) ==
    \E k \in 1..(Len(s) - Len(sub) + 1) : SubSeq(s, k, k + Len(sub) - 1) = sub

\* decimal digits of a natural number
RECURSIVE DigitsOf(_)
DigitsOf(n) ==
    IF n < 10 THEN <<Digits[n + 1]>>
    ELSE DigitsOf(n \div 10) \o <<Digits[(n % 10) + 1]>>

\* int(digits)
RECURSIVE ToInt(_)
ToInt(ds) ==
    IF ds = <<>> THEN 0
    ELSE 10 * ToInt(SubSeq(ds, 1, Len(ds) - 1)) + DigitVal(ds[Len(ds)])

Get(opt, default) == IF opt = <<>> THEN default ELSE opt[1]

----------------------------------------------------------------------------
(* Literals of the program                                                 *)

HDR_timestamp == <<"t", "i", "m", "e", "s", "t", "a", "m", "p">>
HDR_product_name == <<"p", "r", "o", "d", "u", "c", "t", "_", "n", "a", "m", "e">>
HDR_price == <<"p", "r", "i", "c", "e">>
HDR_availability == <<"a", "v", "a", "i", "l", "a", "b", "i", "l", "i", "t", "y">>
HDR_url == <<"u", "r", "l">>

Header == <<HDR_timestamp, HDR_product_name, HDR_price, HDR_availability, HDR_url>>

STR_NA == <<"N", "/", "A">>
STR_Unknown == <<"U", "n", "k", "n", "o", "w", "n">>
STR_InStock == <<"I", "n", " ", "S", "t", "o", "c", "k">>
STR_OutOfStock == <<"O", "u", "t", " ", "o", "f", " ", "S", "t", "o", "c", "k">>
SUB_amazon == <<"a", "m", "a", "z", "o", "n">>
SUB_in_stock == <<"i", "n", " ", "s", "t", "o", "c", "k">>
SUB_available == <<"a", "v", "a", "i", "l", "a", "b", "l", "e">>
SUB_out_of_stock == <<"o", "u", "t", " ", "o", "f", " ", "s", "t", "o", "c", "k">>
SUB_unavailable == <<"u", "n", "a", "v", "a", "i", "l", "a", "b", "l", "e">>

NumNameSelectors == 4
NumPriceSelectors == 7
NumAvailSelectors == 4

\* float('inf'), above every price the model holds (in mills)
Inf == 2000000000

\* 1000000, the exclusive upper limit of a price, in mills
PriceLimit == 1000000000

----------------------------------------------------------------------------
(* Price text: the re.search of line 134 and float()                       *)

\* index of the first digit of s at or after k, 0 when there is none
RECURSIVE FirstDigit(_, _)
FirstDigit(s, k) ==
    IF k > Len(s) THEN 0
    ELSE IF IsDigit(s[k]) THEN k
    ELSE FirstDigit(s, k + 1)

\* index just after the longest run of digits of s that starts at k
RECURSIVE DigitsEnd(_, _)
DigitsEnd(s, k) ==
    IF k <= Len(s) /\ IsDigit(s[k]) THEN DigitsEnd(s, k + 1) ELSE k

\* the match whose digits before the point are s[a..b-1]
MatchWhole(s, a, b) ==
    IF b <= Len(s) /\ s[b] = "."
    THEN <<[whole |-> SubSeq(s, a, b - 1),
            frac  |-> SubSeq(s, b + 1, DigitsEnd(s, b + 1) - 1)]>>
    ELSE <<[whole |-> SubSeq(s, a, b - 1), frac |-> <<>>]>>

\* the match that starts at the digit s[a]; none when a = 0
MatchFrom(s, a) == IF a = 0 THEN <<>> ELSE MatchWhole(s, a, DigitsEnd(s, a))

\* The leftmost match of \d+\.?\d* in s: <<>> when there is none, else
\* <<[whole, frac]>>, the digits before and after the optional point.
RegexSearch(s) == MatchFrom(s, FirstDigit(s, 1))

\* the first three digits after the point, padded with zeros
Thousandths(f) == [k \in 1..3 |-> IF k <= Len(f) THEN f[k] ELSE "0"]

\* float(price_match.group(1)), in mills; the texts of the model carry at
\* most three digits after the point
ToFloat(m) == 1000 * ToInt(m.whole) + ToInt(Thousandths(m.frac))

\* a range that takes zero
InRangeOrZero(price_value) == price_value >= 0 /\ price_value < PriceLimit

\* line 137: the range a parsed value must lie in to be taken
InRange(price_value) == price_value > 0 /\ price_value < PriceLimit

\* lines 137-139
ValidPrice(price_value) == IF InRange(price_value) THEN <<price_value>> ELSE <<>>

\* lines 135-136
PriceOfMatch(price_match) ==
    IF price_match = <<>> THEN <<>> ELSE ValidPrice(ToFloat(price_match[1]))

\* lines 131-134
ParsePrice(price_text) ==
    IF price_text = <<>> THEN <<>> ELSE PriceOfMatch(RegexSearch(price_text))

\* line 130
StripCurrency(price_text) == Strip(Remove(Remove(price_text, "$"), ","))

\* lines 122-128: fraction is the text of span.a-price-fraction, <<>> when
\* the page has no such element
RepairFraction(price_text, fraction) ==
    IF fraction = <<>> THEN price_text
    ELSE price_text \o <<".">> \o Strip(fraction[1])

\* lines 120-139 for one selector whose first element has the text raw:
\* <<>> when the loop goes on to the next selector, else <<price>>
PriceOfText(raw, fraction) ==
    ParsePrice(StripCurrency(RepairFraction(Strip(raw), fraction)))

\* round thousandths to hundredths, half to even
RoundCents(q, r) == IF r > 5 \/ (r = 5 /\ q % 2 = 1) THEN q + 1 ELSE q

\* the text of an amount of cents with two decimals
CentsText(cents) ==
    DigitsOf(cents \div 100) \o <<".">>
    \o <<Digits[((cents \div 10) % 10) + 1], Digits[(cents % 10) + 1]>>

\* f"{float(price_value):.2f}": round to cents (half to even, which is what
\* the format does on the halves a float holds exactly), two decimals
FormatPrice(price_value) == CentsText(RoundCents(price_value \div 10, price_value % 10))

----------------------------------------------------------------------------
(* _extract_amazon_product                                                 *)
(* A page: for each selector of each field the text of the element it      *)
(* finds (<<>> when it finds none, for a name selector: when the wait      *)
(* times out), and fault, the stage at which a query raises an exception   *)
(* other than the expected TimeoutException / NoSuchElementException.      *)

\* lines 92-100: the name loop; None (<<>>) when every wait times out
RECURSIVE NameLoop(_, _)
NameLoop(names, k) ==
    IF k > NumNameSelectors THEN <<>>
    ELSE IF names[k] # <<>> THEN <<Strip(names[k][1])>>
    ELSE NameLoop(names, k + 1)

\* lines 116-143: the price loop; None (<<>>) when no selector gives a price
RECURSIVE PriceLoop(_, _, _)
\* lines 137-143: break with the price found, or go on to the next selector
PriceStep(found, prices, fraction, k) ==
    IF found # <<>> THEN found ELSE PriceLoop(prices, fraction, k + 1)

PriceLoop(prices, fraction, k) ==
    IF k > NumPriceSelectors THEN <<>>
    ELSE PriceStep(IF prices[k] = <<>> THEN <<>> ELSE PriceOfText(prices[k][1], fraction),
                   prices, fraction, k)

\* lines 157-162: the classification of one availability text; <<>> when
\* neither branch is taken
Classify(availability_text) ==
    IF Contains(availability_text, SUB_in_stock)
       \/ Contains(availability_text, SUB_available) THEN <<STR_InStock>>
    ELSE IF Contains(availability_text, SUB_out_of_stock)
            \/ Contains(availability_text, SUB_unavailable) THEN <<STR_OutOfStock>>
    ELSE <<>>

\* lines 152-164: the availability loop
RECURSIVE AvailLoop(_, _)
\* lines 157-164: break with the class found, or go on to the next selector
AvailStep(found, avails, k) ==
    IF found # <<>> THEN found[1] ELSE AvailLoop(avails, k + 1)

AvailLoop(avails, k) ==
    IF k > NumAvailSelectors THEN STR_Unknown
    ELSE AvailStep(IF avails[k] = <<>> THEN <<>> ELSE Classify(Lower(Strip(avails[k][1]))),
                   avails, k)

\* lines 166-167
DefaultAvailability(availability, price) ==
    IF availability = STR_Unknown /\ price # <<>> /\ price[1] # 0
    THEN STR_InStock ELSE availability

\* self.config.get("screenshot_on_error", True)
ScreenshotOnError(cfg) == Get(cfg.screenshot_on_error, TRUE)

\* lines 176-180: the outer except clause
ExtractCaught(cfg) ==
    [data |-> <<>>, shots |-> IF ScreenshotOnError(cfg) THEN 1 ELSE 0, raised |-> TRUE]

\* lines 106-174, once the name is known to be non-empty
ExtractFields(d, url, cfg, product_name, price) ==
    IF d.fault \in {"price", "avail"} THEN ExtractCaught(cfg)
    ELSE [data |-> <<[product_name |-> product_name, price |-> price,
                      availability |-> DefaultAvailability(AvailLoop(d.avail, 1), price),
                      url |-> url]>>,
          shots |-> 0, raised |-> FALSE]

\* lines 102-104 and on
ExtractNamed(d, url, cfg, product_name) ==
    IF product_name = <<>> \/ product_name[1] = <<>>
    THEN [data |-> <<>>, shots |-> 0, raised |-> FALSE]
    ELSE ExtractFields(d, url, cfg, product_name[1], PriceLoop(d.price, d.fraction, 1))

\* The whole method: [data, shots, raised]: the returned dict (<<>> for
\* None), the number of _take_screenshot calls it made, and whether the
\* outer except clause (lines 176-180) ran.
ExtractAmazonProduct(d, url, cfg) ==
    IF d.fault = "name" THEN ExtractCaught(cfg)
    ELSE ExtractNamed(d, url, cfg, NameLoop(d.name, 1))

----------------------------------------------------------------------------
(* Configuration, the observation log, the threshold check                 *)

\* lines 44-49: the dict returned when the config file does not exist
DefaultConfig ==
    [price_threshold |-> <<50000>>, email_enabled |-> <<FALSE>>,
     sender_email |-> <<>>, recipient_email |-> <<>>,
     screenshot_on_error |-> <<TRUE>>, explicit_wait_timeout |-> <<20>>]

\* a loader that lets the FileNotFoundError of a missing file out
LoadConfigStrict(file) ==
    IF file.kind = "json" THEN [raised |-> FALSE, config |-> file.content]
    ELSE [raised |-> TRUE, config |-> DefaultConfig]

\* _load_config: [raised, config]; json.load of a malformed file raises an
\* error that the except FileNotFoundError clause does not catch
LoadConfig(file) ==
    IF file.kind = "missing" THEN [raised |-> FALSE, config |-> DefaultConfig]
    ELSE IF file.kind = "json" THEN [raised |-> FALSE, config |-> file.content]
    ELSE [raised |-> TRUE, config |-> DefaultConfig]

\* an initialisation that writes the header on every call
InitializeCsvAlways(file) ==
    IF file = <<>> THEN <<<<Header>>>> ELSE <<Append(file[1], Header)>>

\* _initialize_csv: the header is written only when the file does not exist
InitializeCsv(file) == IF file = <<>> THEN <<<<Header>>>> ELSE file

\* datetime.now().strftime(...): the text of an instant (here its seconds)
Timestamp(t) == DigitsOf(t)

\* lines 199-203
PriceStr(price_value) ==
    IF price_value = <<>> THEN STR_NA ELSE FormatPrice(price_value[1])

\* lines 207-213: the row written for a record
RowOf(data, t) ==
    <<Timestamp(t), data.product_name, PriceStr(data.price), data.availability, data.url>>

\* _save_result: product_data is <<>> (None or an empty dict) or <<dict>>;
\* mode 'a' creates a missing file
SaveResult(file, pd, t) ==
    IF pd = <<>> THEN file
    ELSE <<Append(Get(file, <<>>), RowOf(pd[1], t))>>

\* line 220
Threshold(cfg) == Get(cfg.price_threshold, Inf)

\* a comparison that also takes a price equal to the threshold
BelowOrEqual(price, threshold) == price <= threshold

\* line 222
BelowThreshold(price, threshold) == price < threshold

\* the config value taking precedence over the environment
ConfigOr(value, fallback) == IF fallback # <<>> THEN fallback ELSE value

\* os.getenv(name) or fallback
EnvOr(value, fallback) == IF value # <<>> THEN value ELSE fallback

\* lines 238-274 with the three credentials resolved: smtp is what the
\* SMTP server does ("ok", "connect", "auth"); every exception of lines
\* 242-272 is caught at line 273
Deliver(sender_email, password, recipient_email, smtp) ==
    IF sender_email = <<>> \/ password = <<>> \/ recipient_email = <<>>
    THEN [delivery |-> "skipped", sender |-> <<>>, recipient |-> <<>>]
    ELSE [delivery |-> IF smtp = "ok" THEN "sent" ELSE "failed",
          sender |-> sender_email, recipient |-> recipient_email]

\* _send_email_alert
SendEmailAlert(cfg, env, smtp) ==
    Deliver(EnvOr(env.EMAIL_SENDER, cfg.sender_email), env.EMAIL_PASSWORD,
            EnvOr(env.EMAIL_RECIPIENT, cfg.recipient_email), smtp)

\* the result of a check that raises no alert
Quiet == [alert |-> FALSE, delivery |-> "none", sender |-> <<>>, recipient |-> <<>>]

\* _check_price_threshold: [alert, delivery, sender, recipient]; delivery is
\* "none" when _send_email_alert is not called
CheckPriceThreshold(data, cfg, env, smtp) ==
    IF data.price = <<>> THEN Quiet
    ELSE IF BelowThreshold(data.price[1], Threshold(cfg))
         THEN IF Get(cfg.email_enabled, FALSE)
              THEN [alert |-> TRUE] @@ SendEmailAlert(cfg, env, smtp)
              ELSE [Quiet EXCEPT !.alert = TRUE]
    ELSE Quiet

----------------------------------------------------------------------------
(* track_products                                                          *)

IsComment(line) == line # <<>> /\ line[1] = "#"

\* line 282
ReadUrls(lines) ==
    LET kept == SelectSeq(lines, LAMBDA l : Strip(l) # <<>> /\ ~IsComment(l))
    IN  [k \in 1..Len(kept) |-> Strip(kept[k])]

\* line 304
IsSupported(url) == Contains(Lower(url), SUB_amazon)

\* lines 321-324: the except clause of one loop iteration
Handler(cfg) == IF ScreenshotOnError(cfg) THEN 1 ELSE 0

\* what is known of an iteration before driver.get is called
NoVisit(url, t) ==
    [url |-> url, nav_raised |-> FALSE, extracted |-> FALSE,
     extract_raised |-> FALSE, data |-> <<>>, saved |-> FALSE,
     save_raised |-> FALSE, check_raised |-> FALSE, handled |-> FALSE, shots |-> 0,
     alert |-> FALSE, delivery |-> "none", sender |-> <<>>,
     recipient |-> <<>>, ts |-> t]

\* lines 321-324 after an exception of driver.get, of _save_result or of
\* _check_price_threshold
Caught(visit, cfg, nav_raised, save_raised, check_raised) ==
    [visit EXCEPT !.nav_raised = nav_raised, !.save_raised = save_raised,
                  !.check_raised = check_raised, !.saved = check_raised,
                  !.handled = TRUE, !.shots = Handler(cfg)]

\* lines 316-317 done: the row is in the log, chk is what the check did
Logged(visit, chk) ==
    [visit EXCEPT !.saved = TRUE, !.alert = chk.alert, !.delivery = chk.delivery,
                  !.sender = chk.sender, !.recipient = chk.recipient]

\* lines 311-324 for the result r of _extract_amazon_product
AfterExtract(visit, r, fault, smtp, cfg, env, file, t) ==
    IF r.data = <<>> THEN [file |-> file, visit |-> visit]
    ELSE IF fault = "save"
    THEN [file |-> file, visit |-> Caught(visit, cfg, FALSE, TRUE, FALSE)]
    ELSE IF fault = "check" /\ r.data[1].price # <<>>
    THEN [file |-> SaveResult(file, r.data, t),
          visit |-> Caught(visit, cfg, FALSE, FALSE, TRUE)]
    ELSE [file |-> SaveResult(file, r.data, t),
          visit |-> Logged(visit, CheckPriceThreshold(r.data[1], cfg, env, smtp))]

\* line 305
Extracted(visit, r) ==
    [visit EXCEPT !.extracted = TRUE, !.extract_raised = r.raised,
                  !.data = r.data, !.shots = r.shots]

\* lines 305, 311-324
ExtractAndLog(url, r, fault, smtp, cfg, env, file, t) ==
    AfterExtract(Extracted(NoVisit(url, t), r), r, fault, smtp, cfg, env, file, t)

\* Lines 298-324, one iteration of the loop for url: the page d the browser
\* renders, the first call of the body that raises an exception of its
\* own, if any (fault: "nav" driver.get; "save" _save_result, before it
\* writes; "check" _check_price_threshold, as with a threshold that is no
\* number or a console that cannot encode the alert: only past line 218,
\* so only with a price), and what the SMTP server does.  [file, visit].
ProcessUrl(url, d, fault, smtp, cfg, env, file, t) ==
    IF fault = "nav"
    THEN [file |-> file, visit |-> Caught(NoVisit(url, t), cfg, TRUE, FALSE, FALSE)]
    ELSE IF ~IsSupported(url) THEN [file |-> file, visit |-> NoVisit(url, t)]
    ELSE ExtractAndLog(url, ExtractAmazonProduct(d, url, cfg), fault, smtp, cfg,
                       env, file, t)

----------------------------------------------------------------------------
(* Inputs: URLs, lines of the products file, element texts, credentials    *)

URL_Amazon == <<"h", "t", "t", "p", "s", ":", "/", "/", "A", "m", "a", "z", "o", "n", ".", "c", "o", "m", "/", "b", "1">>
URL_Ebay == <<"h", "t", "t", "p", "s", ":", "/", "/", "e", "b", "a", "y", ".", "c", "o", "m", "/", "7">>
URL_EbayAmazon == <<"h", "t", "t", "p", "s", ":", "/", "/", "e", "b", "a", "y", ".", "c", "o", "m", "/", "a", "m", "a", "z", "o", "n">>
LINE_Blank == <<" ", " ">>
LINE_Comment == <<"#", " ", "w", "i", "s", "h", "l", "i", "s", "t">>
LINE_Padded == <<" ", "h", "t", "t", "p", "s", ":", "/", "/", "A", "m", "a", "z", "o", "n", ".", "c", "o", "m", "/", "b", "1", " ">>
TXT_Echo == <<"E", "c", "h", "o">>
TXT_Kindle == <<" ", "K", "i", "n", "d", "l", "e", " ">>
TXT_Blank == <<" ">>
TXT_InStock == <<"I", "n", " ", "S", "t", "o", "c", "k", ".">>
TXT_OutOfStock == <<"T", "e", "m", "p", "o", "r", "a", "r", "i", "l", "y", " ", "o", "u", "t", " ", "o", "f", " ", "s", "t", "o", "c", "k", ".">>
TXT_Unavailable == <<"C", "u", "r", "r", "e", "n", "t", "l", "y", " ", "u", "n", "a", "v", "a", "i", "l", "a", "b", "l", "e", ".">>
TXT_Available == <<"A", "v", "a", "i", "l", "a", "b", "l", "e", " ", "f", "r", "o", "m", " ", "t", "h", "e", "s", "e", " ", "s", "e", "l", "l", "e", "r", "s", ".">>
TXT_ShipsSoon == <<"S", "h", "i", "p", "s", " ", "s", "o", "o", "n">>
P_49_99 == <<"$", "4", "9", ".", "9", "9">>
P_1234_56 == <<"$", "1", ",", "2", "3", "4", ".", "5", "6">>
P_zero == <<"$", "0">>
P_na == <<"N", "/", "A">>
P_49dot == <<"4", "9", ".">>
P_49 == <<"4", "9">>
P_million == <<"$", "1", ",", "0", "0", "0", ",", "0", "0", "0">>
P_12_375 == <<"1", "2", ".", "3", "7", "5">>
P_999999_99 == <<"$", "9", "9", "9", ",", "9", "9", "9", ".", "9", "9">>
P_from == <<"f", "r", "o", "m", " ", "$", "4", "5">>
P_0_00 == <<" ", "$", "0", ".", "0", "0", " ">>
F_99 == <<"9", "9">>
MAIL_cfg_sender == <<"c", "f", "g", "@", "s">>
MAIL_cfg_recipient == <<"c", "f", "g", "@", "r">>
MAIL_env_sender == <<"e", "n", "v", "@", "s">>
MAIL_env_recipient == <<"e", "n", "v", "@", "r">>
MAIL_password == <<"p", "w">>

\* longest products list
MaxUrls == 2

\* most price selectors that find an element on one page
MaxPriceElems == 2

\* most rows the log holds in the log-only specification
MaxRows == 3

NoElems(n) == [k \in 1..n |-> <<>>]

OneAt(n, k, text) == [j \in 1..n |-> IF j = k THEN <<text>> ELSE <<>>]

Page(name, price, fraction, avail, fault) ==
    [name |-> name, price |-> price, fraction |-> fraction, avail |-> avail,
     fault |-> fault]

\* name by the first selector, "from $45" by the second price selector
D_cheap ==
    Page(OneAt(4, 1, TXT_Echo), OneAt(7, 2, P_from), <<>>, OneAt(4, 1, TXT_InStock), "none")

\* $49.99
D_exact ==
    Page(OneAt(4, 1, TXT_Kindle), OneAt(7, 1, P_49_99), <<>>, NoElems(4), "none")

\* $1,234.56
D_dear ==
    Page(OneAt(4, 1, TXT_Kindle), OneAt(7, 1, P_1234_56), <<>>, NoElems(4), "none")

\* name by the third selector only, no price element
D_noprice ==
    Page(OneAt(4, 3, TXT_Echo), NoElems(7), <<>>, OneAt(4, 2, TXT_Unavailable), "none")

\* no name selector resolves
D_noname ==
    Page(NoElems(4), OneAt(7, 1, P_49_99), <<>>, OneAt(4, 1, TXT_InStock), "none")

\* an unexpected WebDriver error while the price is queried
D_fault ==
    Page(OneAt(4, 1, TXT_Echo), OneAt(7, 1, P_49_99), <<>>, NoElems(4), "price")

RunPages == {D_cheap, D_noprice, D_noname, D_fault}

AlertPages == {D_cheap, D_exact, D_dear, D_noprice}

\* the pages the sites may render
PagesOf(w) == IF w = "priced" THEN AlertPages ELSE RunPages

Record(name, price, availability, url) ==
    [product_name |-> name, price |-> price, availability |-> availability, url |-> url]

\* a row an earlier run left in results.csv
PriorRow == RowOf(Record(TXT_Echo, <<49990>>, STR_InStock, URL_Amazon), 7)

Json(content) == [kind |-> "json", content |-> content]

Cfg(threshold, enabled, sender, recipient, shot) ==
    [price_threshold |-> threshold, email_enabled |-> enabled,
     sender_email |-> sender, recipient_email |-> recipient,
     screenshot_on_error |-> shot, explicit_wait_timeout |-> <<20>>]

MissingFile == [kind |-> "missing", content |-> DefaultConfig]

InvalidFile == [kind |-> "invalid", content |-> DefaultConfig]

\* {}: a config file with no key at all
EmptyJson ==
    Json([price_threshold |-> <<>>, email_enabled |-> <<>>, sender_email |-> <<>>,
          recipient_email |-> <<>>, screenshot_on_error |-> <<>>,
          explicit_wait_timeout |-> <<>>])

RunConfigFiles ==
    {MissingFile, InvalidFile, EmptyJson,
     Json(Cfg(<<100000>>, <<TRUE>>, MAIL_cfg_sender, MAIL_cfg_recipient, <<TRUE>>)),
     Json(Cfg(<<100000>>, <<FALSE>>, <<>>, <<>>, <<FALSE>>))}

Env(sender, password, recipient) ==
    [EMAIL_SENDER |-> sender, EMAIL_PASSWORD |-> password, EMAIL_RECIPIENT |-> recipient]

Urls == {URL_Amazon, URL_Ebay, URL_EbayAmazon}

SeqsUpTo(S, n) == UNION {[1..k -> S] : k \in 0..n}

ProductLists ==
    SeqsUpTo(Urls, MaxUrls)
    \cup {<<LINE_Comment, LINE_Blank>>, <<LINE_Comment, LINE_Padded, LINE_Blank>>}

NoRun == [urls |-> <<>>, rows0 |-> <<>>, event |-> "none", quits |-> 0]

----------------------------------------------------------------------------
(* The process: main, PriceTracker.__init__, track_products                *)

Init ==
    /\ pc = "main"
    /\ config_file \in RunConfigFiles
    /\ products_file \in {<<>>} \cup {<<l>> : l \in ProductLists}
    /\ environ = Env(<<>>, MAIL_password, <<>>)
    /\ results_file \in {<<>>, <<<<Header, PriorRow>>>>}
    /\ web = "mixed"
    /\ config = <<>>
    /\ driver = "none"
    /\ idx = 0
    /\ now = 10
    /\ exit_code = -1
    /\ visits = <<>>
    /\ run = NoRun
    /\ doc = <<>>
    /\ product_data = <<>>

\* lines 360-362 and __init__ when json.load raises: the error leaves main
ConstructRaises ==
    /\ pc = "main"
    /\ LoadConfig(config_file).raised
    /\ pc' = "exit"
    /\ exit_code' = 1
    /\ run' = [run EXCEPT !.event = "config_error"]
    /\ UNCHANGED <<config_file, products_file, environ, config, results_file, driver,
                   idx, now, visits, web, doc, product_data>>

\* lines 360-362 and __init__: _load_config, then _initialize_csv
Construct ==
    /\ pc = "main"
    /\ ~LoadConfig(config_file).raised
    /\ config' = <<LoadConfig(config_file).config>>
    /\ results_file' = InitializeCsv(results_file)
    /\ run' = [run EXCEPT !.rows0 = InitializeCsv(results_file)[1]]
    /\ pc' = "ready"
    /\ UNCHANGED <<config_file, products_file, environ, driver, idx, now, exit_code,
                   visits, web, doc, product_data>>

\* lines 277-279: no products file; track_products returns, main returns
TrackNoFile ==
    /\ pc = "ready"
    /\ products_file = <<>>
    /\ pc' = "exit"
    /\ exit_code' = 0
    /\ run' = [run EXCEPT !.event = "products_missing"]
    /\ UNCHANGED <<config_file, products_file, environ, config, results_file, driver,
                   idx, now, visits, web, doc, product_data>>

\* lines 281-286: no URL in the products file
TrackNoUrls ==
    /\ pc = "ready"
    /\ products_file # <<>>
    /\ ReadUrls(products_file[1]) = <<>>
    /\ pc' = "exit"
    /\ exit_code' = 0
    /\ run' = [run EXCEPT !.event = "no_urls"]
    /\ UNCHANGED <<config_file, products_file, environ, config, results_file, driver,
                   idx, now, visits, web, doc, product_data>>

\* lines 291-293, 329-334: _setup_driver raises; driver is still None, so
\* the finally clause quits nothing, and sys.exit(1) ends the process
TrackSetupFails ==
    /\ pc = "ready"
    /\ products_file # <<>>
    /\ ReadUrls(products_file[1]) # <<>>
    /\ pc' = "exit"
    /\ exit_code' = 1
    /\ run' = [run EXCEPT !.urls = ReadUrls(products_file[1]), !.event = "driver_error"]
    /\ UNCHANGED <<config_file, products_file, environ, config, results_file, driver,
                   idx, now, visits, web, doc, product_data>>

\* lines 281-295: the driver is acquired and the loop entered
TrackBegin ==
    /\ pc = "ready"
    /\ products_file # <<>>
    /\ ReadUrls(products_file[1]) # <<>>
    /\ driver' = "open"
    /\ idx' = 1
    /\ pc' = "loop"
    /\ run' = [run EXCEPT !.urls = ReadUrls(products_file[1])]
    /\ UNCHANGED <<config_file, products_file, environ, config, results_file, now,
                   exit_code, visits, web, doc, product_data>>

\* a loop that an exception of the body ends
LoopNextAbort(i, n, visit) == IF visit.handled \/ visit.extract_raised THEN n + 1 ELSE i + 1

\* line 295 with the try/except of lines 298-324: whatever happened in the
\* body, the for loop goes on with the next index
LoopNext(i, n, visit) == i + 1

\* lines 295-324: one iteration of the loop
Visit ==
    /\ pc = "loop"
    /\ driver = "open"
    /\ idx <= Len(run.urls)
    /\ \E fault \in {"none", "nav", "save", "check"}, d \in PagesOf(web),
          smtp \in {"ok", "connect", "auth"} :
       \E out \in {ProcessUrl(run.urls[idx], d, fault, smtp, config[1], environ,
                              results_file, IF fault = "nav" THEN now ELSE now + 2)} :
              /\ results_file' = out.file
              /\ visits' = Append(visits, out.visit)
              /\ now' = IF fault = "nav" THEN now ELSE now + 2
              /\ idx' = LoopNext(idx, Len(run.urls), out.visit)
    /\ UNCHANGED <<pc, config_file, products_file, environ, config, driver, exit_code,
                   run, web, doc, product_data>>

\* a finally clause that leaves the driver as it is
FinallySkip(d) == d

\* lines 332-334: the driver after the finally clause
Finally(d) == IF d # "none" THEN "quit" ELSE d

\* lines 333-334: the driver.quit() calls made so far, n before the clause
QuitCalls(d, n) == IF d # "none" THEN n + 1 ELSE n

\* lines 326-334: the loop is over; finally quits the driver; main returns
Finish ==
    /\ pc = "loop"
    /\ idx > Len(run.urls)
    /\ driver' = Finally(driver)
    /\ pc' = "exit"
    /\ exit_code' = 0
    /\ run' = [run EXCEPT !.event = "completed", !.quits = QuitCalls(driver, @)]
    /\ UNCHANGED <<config_file, products_file, environ, config, results_file, idx,
                   now, visits, web, doc, product_data>>

\* lines 329-334: an exception raised in the loop outside the try of lines
\* 298-320 (by the print of line 296, 326 or 327, or inside the except
\* clause of lines 321-324, whose print of line 322 a console may fail to
\* encode) reaches the outer except clause: sys.exit(1), and the finally
\* clause quits the driver on the way out
TrackFatal ==
    /\ pc = "loop"
    /\ driver = "open"
    /\ driver' = Finally(driver)
    /\ pc' = "exit"
    /\ exit_code' = 1
    /\ run' = [run EXCEPT !.event = "fatal_error", !.quits = QuitCalls(driver, @)]
    /\ UNCHANGED <<config_file, products_file, environ, config, results_file, idx,
                   now, visits, web, doc, product_data>>

Next ==
    \/ ConstructRaises
    \/ Construct
    \/ TrackNoFile
    \/ TrackNoUrls
    \/ TrackSetupFails
    \/ TrackBegin
    \/ Visit
    \/ Finish
    \/ TrackFatal

Spec == Init /\ [][Next]_vars

----------------------------------------------------------------------------
(* Properties of the run (specification Spec)                              *)

Completed == pc = "exit" /\ run.event = "completed"

\* the rows appended to the log since the tracker was constructed
NewRows == SubSeq(results_file[1], Len(run.rows0) + 1, Len(results_file[1]))

\* the rows the log held at construction are still its first rows
OldRowsKept ==
    /\ Len(results_file[1]) >= Len(run.rows0)
    /\ SubSeq(results_file[1], 1, Len(run.rows0)) = run.rows0

RECURSIVE RowsFor(_)
RowsFor(vs) ==
    IF vs = <<>> THEN <<>>
    ELSE <<RowOf(Head(vs).data[1], Head(vs).ts)>> \o RowsFor(Tail(vs))

ExtractionSucceeded(v) == v.data # <<>>

AppendDidNotRaise(v) == ~v.save_raised

SucceededAndAppended(v) == ExtractionSucceeded(v) /\ AppendDidNotRaise(v)

\* every URL of the list was attempted once, in input order
AllAttempted ==
    /\ Len(visits) = Len(run.urls)
    /\ \A i \in 1..Len(visits) : visits[i].url = run.urls[i]

\* C2 as stated: when the run ends every URL was attempted in input order
\* and the rows appended to the log are exactly one row per URL whose
\* extraction succeeded, in input order, whatever raised for single URLs.
C2_AsStated ==
    Completed =>
        /\ AllAttempted
        /\ NewRows = RowsFor(SelectSeq(visits, ExtractionSucceeded))

\* C2 (amended): when the run ends every URL of the list was attempted, in
\* input order, and the rows appended to the log during the run are exactly
\* one row for each URL whose extraction succeeded and whose append to the
\* log did not raise, in input order; the rows the log held before are kept.
C2_BatchIsolation ==
    Completed =>
        /\ AllAttempted
        /\ OldRowsKept
        /\ NewRows = RowsFor(SelectSeq(visits, SucceededAndAppended))

\* a run of two URLs: the first one fails with an exception, the second one
\* is extracted and logged
C2_Witness ==
    /\ Completed
    /\ Len(visits) = 2
    /\ visits[1].handled \/ visits[1].extract_raised
    /\ visits[2].saved
    /\ Len(NewRows) = 1

\* index of the first k' >= k with s[k'] = c, 0 when there is none
RECURSIVE IndexOf(_, _, _)
IndexOf(s, c, k) ==
    IF k > Len(s) THEN 0
    ELSE IF s[k] = c THEN k
    ELSE IndexOf(s, c, k + 1)

\* the host of an URL scheme://host/path
HostOf(url) ==
    SubSeq(url, IndexOf(url, "/", 1) + 2, IndexOf(url, "/", IndexOf(url, "/", 1) + 2) - 1)

\* the URL is on the reference site's domain
OnReferenceSite(url) == Contains(Lower(HostOf(url)), SUB_amazon)

\* C3: a URL whose site is not the reference site's domain is skipped: no
\* extraction is run for it, no row is appended, no diagnostic capture is
\* taken and it is not treated as a failure.
C3_UnsupportedSkipped ==
    \A i \in 1..Len(visits) :
        ~OnReferenceSite(visits[i].url) =>
            /\ ~visits[i].extracted
            /\ ~visits[i].saved
            /\ visits[i].shots = 0
            /\ ~visits[i].handled

\* the error categories the claim calls fatal
FatalEvents == {"products_missing", "driver_error", "config_error", "fatal_error"}

\* C8: the exit code is 1 exactly when a fatal run-level error occurred
\* (products list missing, driver acquisition failure, an unhandled error
\* outside the per-URL boundary) and 0 otherwise; a missing products list
\* ends the run before the driver is acquired and before any visit.
C8_ExitCode ==
    pc = "exit" =>
        /\ exit_code = (IF run.event \in FatalEvents THEN 1 ELSE 0)
        /\ run.event = "products_missing" => driver = "none" /\ visits = <<>>

\* the visit failed: an exception was handled, or extraction gave no record
VisitFailed(v) == v.handled \/ v.extract_raised \/ (v.extracted /\ v.data = <<>>)

\* C9: with screenshot_on_error enabled every failed visit of a supported
\* URL makes exactly one capture attempt and a successful visit none; with
\* it disabled no capture is ever attempted.
C9_OneCapturePerFailure ==
    \A i \in 1..Len(visits) :
        IsSupported(visits[i].url) =>
            visits[i].shots =
                (IF ScreenshotOnError(config[1]) /\ VisitFailed(visits[i]) THEN 1 ELSE 0)

\* the config file does not exist
ConfigMissing == config_file.kind = "missing"

\* the documented default set: price_threshold 50.0, email alerts
\* disabled, screenshot_on_error true, explicit_wait_timeout 20
IsDocumentedDefaults(cfg) ==
    /\ cfg.price_threshold = <<50000>>
    /\ cfg.email_enabled = <<FALSE>>
    /\ cfg.screenshot_on_error = <<TRUE>>
    /\ cfg.explicit_wait_timeout = <<20>>

\* C11: loading a config path that does not exist never raises and yields
\* the documented default set (price_threshold 50.0, email alerts
\* disabled, screenshot_on_error true, explicit_wait_timeout 20), and the
\* run proceeds from there: it never ends with a configuration error.
C11_MissingConfigDefaults ==
    ConfigMissing =>
        /\ run.event # "config_error"
        /\ pc # "main" => (config # <<>> /\ IsDocumentedDefaults(config[1]))

\* a run without a config file that visited a URL, logged its record and
\* ended normally
C11_Witness ==
    /\ ConfigMissing
    /\ Completed
    /\ Len(visits) >= 1
    /\ visits[1].saved

\* the driver was acquired: _setup_driver returned (line 293)
Acquired == run.event \in {"completed", "fatal_error"} \/ pc = "loop"

\* what holds of the driver in every state
DriverReleasedOnce ==
    /\ run.quits <= 1
    /\ driver = "quit" <=> run.quits = 1
    /\ pc = "exit" => driver # "open"
    /\ (pc = "exit" /\ Acquired) => (driver = "quit" /\ run.quits = 1)
    /\ (pc = "exit" /\ run.event = "fatal_error") => exit_code = 1

\* C13: once track_products has acquired the driver it is released exactly
\* once on every exit path (normal completion, per-URL failures, a fatal
\* error that exits with code 1), and no URL is visited after the release.
C13_DriverReleased ==
    /\ []DriverReleasedOnce
    /\ [][driver = "quit" => visits' = visits /\ driver' = "quit"]_vars

\* a fatal error after a visit that failed: exit code 1, one quit
C13_Witness ==
    /\ pc = "exit"
    /\ run.event = "fatal_error"
    /\ exit_code = 1
    /\ Len(visits) = 1
    /\ VisitFailed(visits[1])
    /\ driver = "quit"
    /\ run.quits = 1

----------------------------------------------------------------------------
(* The threshold check and the e-mail alert (specification SpecAlert): the *)
(* same process, started with every combination of threshold, e-mail       *)
(* settings and environment variables, on priced pages.                    *)

AlertConfigFiles ==
    {Json(Cfg(threshold, enabled, sender, recipient, <<TRUE>>)) :
        threshold \in {<<>>, <<45000>>, <<49990>>},
        enabled \in {<<>>, <<FALSE>>, <<TRUE>>},
        sender \in {<<>>, MAIL_cfg_sender},
        recipient \in {<<>>, MAIL_cfg_recipient}}

AlertEnvirons ==
    {Env(sender, password, recipient) :
        sender \in {<<>>, MAIL_env_sender},
        password \in {<<>>, MAIL_password},
        recipient \in {<<>>, MAIL_env_recipient}}

InitAlert ==
    /\ pc = "main"
    /\ \/ /\ config_file \in AlertConfigFiles
          /\ environ \in AlertEnvirons
          /\ products_file = <<<<URL_Amazon, URL_Amazon>>>>
       \/ /\ config_file \in {MissingFile, InvalidFile}
          /\ environ = Env(<<>>, <<>>, <<>>)
          /\ products_file \in {<<>>, <<<<LINE_Comment>>>>, <<<<URL_Amazon>>>>}
    /\ results_file = <<>>
    /\ web = "priced"
    /\ config = <<>>
    /\ driver = "none"
    /\ idx = 0
    /\ now = 10
    /\ exit_code = -1
    /\ visits = <<>>
    /\ run = NoRun
    /\ doc = <<>>
    /\ product_data = <<>>

SpecAlert == InitAlert /\ [][Next]_vars

\* the visits in which _check_price_threshold was called (line 317)
Checked(v) == v.saved /\ ~v.check_raised

\* C1: the threshold check raises an alert if and only if the record's
\* price is present and strictly less than the configured price_threshold.
C1_AlertIffBelow ==
    \A i \in 1..Len(visits) :
        (Checked(visits[i]) /\ config[1].price_threshold # <<>>) =>
            (visits[i].alert <=>
                /\ visits[i].data[1].price # <<>>
                /\ visits[i].data[1].price[1] < config[1].price_threshold[1])

\* a checked record below the threshold, with an alert, then a checked
\* record whose price equals the threshold, without one
C1_Witness ==
    /\ Len(visits) = 2
    /\ Checked(visits[1]) /\ visits[1].alert
    /\ visits[1].data[1].price = <<45000>>
    /\ Checked(visits[2]) /\ ~visits[2].alert
    /\ visits[2].data[1].price = config[1].price_threshold

\* the configuration supplies no price_threshold: there is no config
\* file, or the file has no such key
ThresholdUnspecified ==
    \/ config_file.kind = "missing"
    \/ config_file.kind = "json" /\ config_file.content.price_threshold = <<>>

\* C12: when the configuration supplies no price_threshold the threshold
\* check uses the default 50.0: a record alerts exactly when its price is
\* present and below 50.0, so a price of 50.0 or more never alerts.
C12_DefaultThreshold ==
    \A i \in 1..Len(visits) :
        (ThresholdUnspecified /\ Checked(visits[i])) =>
            (visits[i].alert <=>
                /\ visits[i].data[1].price # <<>>
                /\ visits[i].data[1].price[1] < 50000)

DeliveryAttempted(v) == v.delivery \in {"sent", "failed"}

\* the credential the claim calls available: the environment variable if
\* set, else the config value
Available(env_value, config_value) == env_value # <<>> \/ config_value # <<>>

Preferred(env_value, config_value) ==
    IF env_value # <<>> THEN env_value ELSE config_value

\* C10: for an alert, delivery is attempted if and only if e-mail alerts
\* are enabled in the config and sender, password and recipient are all
\* available, the environment variables taking precedence over the config
\* values; a delivery failure does not propagate: the record stays logged,
\* no failure is recorded for the URL and the run goes on and, unless an
\* error outside the per-URL boundary ends it, ends with every URL
\* attempted and exit code 0.
C10_DeliveryPolicy ==
    /\ \A i \in 1..Len(visits) :
          (Checked(visits[i]) /\ visits[i].alert) =>
            /\ DeliveryAttempted(visits[i]) <=>
                  /\ config[1].email_enabled = <<TRUE>>
                  /\ Available(environ.EMAIL_SENDER, config[1].sender_email)
                  /\ environ.EMAIL_PASSWORD # <<>>
                  /\ Available(environ.EMAIL_RECIPIENT, config[1].recipient_email)
            /\ DeliveryAttempted(visits[i]) =>
                  /\ visits[i].sender =
                        Preferred(environ.EMAIL_SENDER, config[1].sender_email)
                  /\ visits[i].recipient =
                        Preferred(environ.EMAIL_RECIPIENT, config[1].recipient_email)
            /\ visits[i].delivery = "failed" =>
                  /\ ~visits[i].handled
                  /\ visits[i].shots = 0
                  /\ \E k \in 1..Len(results_file[1]) :
                        results_file[1][k] = RowOf(visits[i].data[1], visits[i].ts)
                  /\ idx > i
    /\ (/\ pc = "exit"
        /\ run.event # "fatal_error"
        /\ \E i \in 1..Len(visits) : visits[i].delivery = "failed") =>
          AllAttempted /\ exit_code = 0

\* the first URL's alert was sent from the environment's sender although
\* the config names another one, the delivery failed, and the second URL
\* was visited and logged
C10_Witness ==
    /\ Len(visits) = 2
    /\ visits[1].delivery = "failed"
    /\ visits[1].sender = MAIL_env_sender
    /\ config[1].sender_email = MAIL_cfg_sender
    /\ visits[2].saved

----------------------------------------------------------------------------
(* _extract_amazon_product alone (specification SpecExtract): one call on  *)
(* a page drawn from the pages below.                                      *)

\* what a name selector may find: nothing (timeout), an element with empty
\* or blank text, an element with text
NameChoices == {<<>>, <<<<>>>>, <<TXT_Blank>>, <<TXT_Echo>>, <<TXT_Kindle>>}

\* the texts the price elements carry when several selectors find one
PriceTexts == {<<>>, P_49_99, P_1234_56, P_zero, P_na, P_million, P_from}

\* further texts, carried by a page's only price element
LonePriceTexts == {P_49, P_49dot, P_999999_99, P_12_375, P_0_00}

FractionChoices == {<<>>, <<<<>>>>, <<F_99>>}

AvailChoices ==
    {<<>>, <<TXT_InStock>>, <<TXT_OutOfStock>>, <<TXT_Unavailable>>, <<TXT_Available>>,
     <<TXT_ShipsSoon>>}

\* the selectors of 1..n that find an element: at most m of them
Present(n, m) == {S \in SUBSET (1..n) : Cardinality(S) <= m}

PriceChoices ==
    UNION {{[k \in 1..NumPriceSelectors |-> IF k \in S THEN <<f[k]>> ELSE <<>>] :
              f \in [S -> PriceTexts]} : S \in Present(NumPriceSelectors, MaxPriceElems)}

NamePages ==
    {Page(name, OneAt(7, 1, P_49_99), <<>>, NoElems(4), "none") :
        name \in [1..NumNameSelectors -> NameChoices]}

PricePages ==
    {Page(OneAt(4, 1, TXT_Echo), price, fraction, NoElems(4), "none") :
        price \in PriceChoices \cup {OneAt(7, k, t) : k \in {1, 7}, t \in LonePriceTexts},
        fraction \in FractionChoices}

AvailPages ==
    {Page(OneAt(4, 1, TXT_Echo), price, <<>>, avail, "none") :
        price \in {NoElems(7), OneAt(7, 1, P_49_99)},
        avail \in [1..NumAvailSelectors -> AvailChoices]}

FaultPages ==
    {Page(name, OneAt(7, 1, P_49_99), <<>>, NoElems(4), fault) :
        name \in {NoElems(4), OneAt(4, 2, TXT_Echo)},
        fault \in {"name", "price", "avail"}}

ExtractPages == NamePages \cup PricePages \cup AvailPages \cup FaultPages

InitExtract ==
    /\ pc = "call"
    /\ \/ /\ doc \in {<<d>> : d \in ExtractPages}
          /\ config = <<DefaultConfig>>
       \/ /\ doc \in {<<d>> : d \in FaultPages}
          /\ config = <<Cfg(<<100000>>, <<FALSE>>, <<>>, <<>>, <<FALSE>>)>>
    /\ product_data = <<>>
    /\ config_file = MissingFile
    /\ products_file = <<>>
    /\ environ = Env(<<>>, <<>>, <<>>)
    /\ results_file = <<>>
    /\ web = "mixed"
    /\ driver = "open"
    /\ idx = 0
    /\ now = 10
    /\ exit_code = -1
    /\ visits = <<>>
    /\ run = NoRun

\* one call of _extract_amazon_product(driver, url) on the page doc
Extract ==
    /\ pc = "call"
    /\ product_data' = <<ExtractAmazonProduct(doc[1], URL_Amazon, config[1])>>
    /\ pc' = "returned"
    /\ UNCHANGED <<config_file, products_file, environ, config, results_file, driver,
                   idx, now, exit_code, visits, run, web, doc>>

NextExtract == Extract

SpecExtract == InitExtract /\ [][NextExtract]_vars

Returned == pc = "returned"

\* the name selectors that yield a non-empty trimmed text
NameYields(d) == {k \in 1..NumNameSelectors : d.name[k] # <<>> /\ Strip(d.name[k][1]) # <<>>}

Least(S) == CHOOSE k \in S : \A j \in S : k <= j

\* C4: the name is the trimmed text of the first name selector, in
\* priority order, that yields a non-empty trimmed text; selectors that time
\* out or yield empty text are passed over; extraction fails for want of a
\* name only when no selector yields a non-empty text.
C4_NameCascade ==
    (Returned /\ doc[1].fault = "none") =>
        IF NameYields(doc[1]) = {}
        THEN product_data[1].data = <<>>
        ELSE /\ product_data[1].data # <<>>
             /\ product_data[1].data[1].product_name =
                    Strip(doc[1].name[Least(NameYields(doc[1]))][1])

\* the lowered text of an availability element says one of the four phrases
Says(text) ==
    \/ Contains(text, SUB_in_stock)
    \/ Contains(text, SUB_available)
    \/ Contains(text, SUB_out_of_stock)
    \/ Contains(text, SUB_unavailable)

\* the availability selectors whose element's text says one of the phrases
AvailMatches(d) ==
    {k \in 1..NumAvailSelectors : d.avail[k] # <<>> /\ Says(Lower(Strip(d.avail[k][1])))}

FirstAvailText(d) == Lower(Strip(d.avail[Least(AvailMatches(d))][1]))

SaysOut(text) == Contains(text, SUB_out_of_stock) \/ Contains(text, SUB_unavailable)

\* C5: availability comes from the first availability selector whose
\* lowered text matches: "out of stock" or "unavailable" gives Out of
\* Stock, "in stock" or "available" gives In Stock.
C5_AvailabilityClasses ==
    (Returned /\ product_data[1].data # <<>> /\ AvailMatches(doc[1]) # {}) =>
        product_data[1].data[1].availability =
            (IF SaysOut(FirstAvailText(doc[1])) THEN STR_OutOfStock ELSE STR_InStock)

\* the name selectors that find an element
NameFinds(d) == {k \in 1..NumNameSelectors : d.name[k] # <<>>}

\* the extraction gets a name: the first element found has a non-empty text
NameResolved(d) ==
    NameFinds(d) # {} /\ Strip(d.name[Least(NameFinds(d))][1]) # <<>>

\* the text of price selector k after the fraction repair and the removal
\* of currency signs and thousands separators
CleanedPriceText(d, k) == StripCurrency(RepairFraction(Strip(d.price[k][1]), d.fraction))

\* the value of the first numeric substring of a text that has one
FirstNumber(text) == ToFloat(RegexSearch(text)[1])

\* the price selectors that qualify: the cleaned text of the first element
\* holds a number v with 0 < v < 1000000
Qualifies(d) ==
    {k \in 1..NumPriceSelectors :
        /\ d.price[k] # <<>>
        /\ RegexSearch(CleanedPriceText(d, k)) # <<>>
        /\ 0 < FirstNumber(CleanedPriceText(d, k))
        /\ FirstNumber(CleanedPriceText(d, k)) < 1000 * 1000000}

\* C6: the recorded price is the value of the first price selector, in
\* priority order, that qualifies; when none qualifies the price is absent
\* and the extraction still gives a record; a recorded price is never
\* <= 0 or >= 1000000.
C6_PriceCascade ==
    (Returned /\ doc[1].fault = "none" /\ NameResolved(doc[1])) =>
        /\ product_data[1].data # <<>>
        /\ product_data[1].data[1].price =
              (IF Qualifies(doc[1]) = {} THEN <<>>
               ELSE <<FirstNumber(CleanedPriceText(doc[1], Least(Qualifies(doc[1]))))>>)
        /\ product_data[1].data[1].price # <<>> =>
              /\ product_data[1].data[1].price[1] > 0
              /\ product_data[1].data[1].price[1] < 1000 * 1000000

\* the first price selector finds "$0", which is passed over, and a later
\* one gives the price
C6_Witness ==
    /\ Returned
    /\ doc[1].price[1] = <<P_zero>>
    /\ product_data[1].data # <<>>
    /\ product_data[1].data[1].price = <<49990>>

----------------------------------------------------------------------------
(* The observation log alone (specification SpecCsv): _initialize_csv, as  *)
(* every construction of a PriceTracker calls it, and _save_result, in the *)
(* orders the program and its tests call them.                             *)

CsvRecords ==
    {Record(TXT_Echo, <<49990>>, STR_InStock, URL_Amazon),
     Record(TXT_Echo, <<>>, STR_OutOfStock, URL_Amazon),
     Record(TXT_Echo, <<12375>>, STR_Unknown, URL_Ebay),
     Record(TXT_Echo, <<100000>>, STR_InStock, URL_Ebay)}

InitCsv ==
    /\ pc = "csv"
    /\ results_file = <<>>
    /\ visits = <<>>
    /\ run = NoRun
    /\ now = 10
    /\ config_file = MissingFile
    /\ products_file = <<>>
    /\ environ = Env(<<>>, <<>>, <<>>)
    /\ config = <<DefaultConfig>>
    /\ web = "mixed"
    /\ driver = "none"
    /\ idx = 0
    /\ exit_code = -1
    /\ doc = <<>>
    /\ product_data = <<>>

\* _initialize_csv(); visits then lists the _save_result calls made since
CsvInitialize ==
    /\ pc = "csv"
    /\ results_file' = InitializeCsv(results_file)
    /\ run' = [run EXCEPT !.rows0 = Get(results_file, <<>>), !.event = "initialized"]
    /\ visits' = <<>>
    /\ UNCHANGED <<pc, config_file, products_file, environ, config, driver, idx, now,
                   exit_code, web, doc, product_data>>

\* _save_result(record), the clock having advanced by dt seconds
CsvSave ==
    /\ pc = "csv"
    /\ run.event = "initialized"
    /\ Len(results_file[1]) <= MaxRows
    /\ \E data \in CsvRecords, dt \in {0, 1} :
          /\ results_file' = SaveResult(results_file, <<data>>, now + dt)
          /\ visits' = Append(visits, [data |-> <<data>>, ts |-> now + dt])
          /\ now' = now + dt
    /\ UNCHANGED <<pc, config_file, products_file, environ, config, driver, idx,
                   exit_code, run, web, doc, product_data>>

NextCsv == CsvInitialize \/ CsvSave

SpecCsv == InitCsv /\ [][NextCsv]_vars

Initialized == pc = "csv" /\ run.event = "initialized"

HeaderCount(rows) == Cardinality({k \in 1..Len(rows) : rows[k] = Header})

\* the last n rows of the file
LastRows(n) == SubSeq(results_file[1], Len(results_file[1]) - n + 1, Len(results_file[1]))

\* a text of digits, a point and exactly two digits
TwoDecimals(text) ==
    /\ Len(text) >= 4
    /\ text[Len(text) - 2] = "."
    /\ \A k \in 1..Len(text) : k # Len(text) - 2 => IsDigit(text[k])

\* the amount a two-decimal text denotes, in mills
MillsOf(text) == 10 * ToInt(Remove(text, "."))

\* the price field of a row is "N/A" for an absent price, else the price
\* rounded to cents with exactly two decimals
PriceFieldOf(row, price) ==
    IF price = <<>> THEN row[3] = STR_NA
    ELSE /\ row[3] # STR_NA
         /\ TwoDecimals(row[3])
         /\ MillsOf(row[3]) - price[1] <= 5
         /\ price[1] - MillsOf(row[3]) <= 5

PriceFieldsRight ==
    \A i \in 1..Len(visits) :
        PriceFieldOf(LastRows(Len(visits))[i], visits[i].data[1].price)

\* C7 as stated: after _initialize_csv and n calls of _save_result the
\* first row is the header, the header occurs once, exactly n data rows
\* follow it in call order, and each price field is "N/A" or two decimals.
C7_AsStated ==
    Initialized =>
        /\ results_file[1][1] = Header
        /\ HeaderCount(results_file[1]) = 1
        /\ Len(results_file[1]) = 1 + Len(visits)
        /\ LastRows(Len(visits)) = RowsFor(visits)
        /\ PriceFieldsRight

\* C7 (amended): after _initialize_csv and n calls of _save_result the
\* first row is the header, the header occurs once, the rows the file held
\* when _initialize_csv was called are kept and exactly n rows follow them,
\* one per call in call order (so exactly n data rows follow the header
\* when the file did not exist before), and each of these rows' price field
\* is "N/A" for an absent price, else the price with exactly two decimals.
C7_LogShape ==
    Initialized =>
        /\ results_file[1][1] = Header
        /\ HeaderCount(results_file[1]) = 1
        /\ Len(results_file[1]) = (IF run.rows0 = <<>> THEN 1 ELSE Len(run.rows0)) + Len(visits)
        /\ run.rows0 # <<>> => SubSeq(results_file[1], 1, Len(run.rows0)) = run.rows0
        /\ LastRows(Len(visits)) = RowsFor(visits)
        /\ PriceFieldsRight

\* a file that held a data row when _initialize_csv was called, and two
\* calls of _save_result since, for an absent price and for 12.375
C7_Witness ==
    /\ Initialized
    /\ Len(run.rows0) = 2
    /\ Len(visits) = 2
    /\ visits[1].data[1].price = <<>>
    /\ visits[2].data[1].price = <<12375>>
    /\ results_file[1][4][3] = <<"1", "2", ".", "3", "8">>

====
